---- MODULE Spec2Model ----
(***************************************************************************)
(* A model of the INSEE client (insee_api.py) and of the answer generator  *)
(* (rag_agent.py).                                                         *)
(*                                                                         *)
(*   Spec         the client used by one caller: the wall clock, the       *)
(*                cached token, get_token and get_bdm_series with the      *)
(*                upstream's answers chosen nondeterministically.          *)
(*   SpecRequest  the request get_bdm_series assembles, for every          *)
(*                identifier input and filter combination of the bounds.   *)
(*   SpecParse    the flattening of a 2xx response body into records.      *)
(*   SpecAnswer   ask_question and dataframe_to_context.                   *)
(*   SpecThreads  get_token called by two concurrent callers on one        *)
(*                client, one field access or request per step.            *)
(*                                                                         *)
(* Python strings whose characters matter (identifiers, model text) are    *)
(* sequences of one-character strings; the other strings are TLA+ strings. *)
(* Python's None is the value None below, which no token equals.           *)
(***************************************************************************)
EXTENDS Integers, Sequences, FiniteSets, TLC

VARIABLES now, access_token, token_expiry, pc, call,
          input, request,
          body, parsed,
          openai, api_key, answer

vars == <<now, access_token, token_expiry, pc, call,
          input, request, body, parsed, openai, api_key, answer>>

tokenVars == <<now, access_token, token_expiry, pc, call>>
requestVars == <<input, request>>
parseVars == <<body, parsed>>
answerVars == <<openai, api_key, answer>>

(***************************************************************************)
(* Bounds                                                                  *)
(***************************************************************************)
\* the wall clock runs from 0 to MaxTime
MaxTime == 2
\* identifiers in one collection
MaxIds == 2
\* observation entries in the first series entry of a body
MaxObs == 2
\* rows of the DataFrame passed to ask_question
MaxDfRows == 6

(***************************************************************************)
(* Python values                                                           *)
(***************************************************************************)
\* the token strings the upstream hands out
Tokens == {"T1", "T2"}

None == "None"

\* the truth value of a Python string or None: "not x" is ~Truthy(x)
Truthy(x) == x # None /\ x # ""

RECURSIVE LStrip(_)
LStrip(s) == IF s = <<>> THEN s
             ELSE IF Head(s) = " " THEN LStrip(Tail(s)) ELSE s

RECURSIVE RStrip(_)
RStrip(s) == IF s = <<>> THEN s
             ELSE IF s[Len(s)] = " " THEN RStrip(SubSeq(s, 1, Len(s) - 1)) ELSE s

\* str.strip()
Strip(s) == RStrip(LStrip(s))

\* sep.join(list)
RECURSIVE Join(_, _)
Join(list, sep) == IF list = <<>> THEN <<>>
                   ELSE IF Len(list) = 1 THEN list[1]
                   ELSE list[1] \o <<sep>> \o Join(Tail(list), sep)

\* [f(x) for x in list if p(x)] with f = strip and p = the stripped string is not empty
RECURSIVE StripNonEmpty(_)
StripNonEmpty(list) ==
    IF list = <<>> THEN <<>>
    ELSE LET s == Strip(Head(list))
         IN  (IF s # <<>> THEN <<s>> ELSE <<>>) \o StripNonEmpty(Tail(list))

(***************************************************************************)
(* Token manager: InseeAPI._obtain_token and InseeAPI.get_token            *)
(***************************************************************************)
\* expires_in = data.get("expires_in", 3600)
DefaultExpiresIn == 3600

\* seconds a token exchange may take (time.time() of line 77 against line 85)
Delays == {0, 1}

\* What the upstream may answer to POST /token: a non-2xx status, or a 2xx JSON
\* object whose access_token is a string or absent (None) and whose expires_in is
\* absent, a number, or something float() rejects.
TokenResponses ==
    [ok : {TRUE}, access_token : Tokens \cup {None, ""},
     expires : {"number"}, expires_in : {-1, 0, 1}]
    \cup
    [ok : {TRUE}, access_token : Tokens \cup {None, ""},
     expires : {"absent", "malformed"}, expires_in : {0}]
    \cup
    {[ok |-> FALSE, access_token |-> None, expires |-> "absent", expires_in |-> 0]}

PostToken(resp) == [m |-> "POST", url |-> "/token", ok |-> resp.ok]

\* _obtain_token with the upstream answering resp after dt seconds: the fields
\* after the call, the request sent, and the exception raised if any.
obtain_token(tok, exp, t, resp, dt) ==
    LET t1 == t + dt
    IN  IF ~resp.ok
        THEN [tok |-> tok, exp |-> exp, now |-> t1,
              net |-> <<PostToken(resp)>>, exc |-> "HTTPError"]
        ELSE IF resp.expires = "malformed"
        THEN [tok |-> resp.access_token, exp |-> exp, now |-> t1,
              net |-> <<PostToken(resp)>>, exc |-> "ValueError"]
        ELSE [tok |-> resp.access_token,
              exp |-> t1 + (IF resp.expires = "absent" THEN DefaultExpiresIn
                            ELSE resp.expires_in),
              now |-> t1,
              net |-> <<PostToken(resp)>>, exc |-> None]

\* the token still used at its expiry instant
NeedsTokenGt(tok, exp, t) == ~Truthy(tok) \/ t > exp

\* the test of line 85
NeedsToken(tok, exp, t) == ~Truthy(tok) \/ t >= exp

\* get_token called at time t: the fields after the call, the requests sent, and
\* either the token returned or the exception raised.
get_token(tok, exp, t, resp, dt) ==
    LET o == IF NeedsToken(tok, exp, t)
             THEN obtain_token(tok, exp, t, resp, dt)
             ELSE [tok |-> tok, exp |-> exp, now |-> t, net |-> <<>>, exc |-> None]
    IN  IF o.exc # None
        THEN [tok |-> o.tok, exp |-> o.exp, now |-> o.now, net |-> o.net,
              kind |-> "raise", exc |-> o.exc, token |-> None]
        ELSE IF o.tok = None
        THEN [tok |-> o.tok, exp |-> o.exp, now |-> o.now, net |-> o.net,
              kind |-> "raise", exc |-> "AssertionError", token |-> None]
        ELSE [tok |-> o.tok, exp |-> o.exp, now |-> o.now, net |-> o.net,
              kind |-> "return", exc |-> None, token |-> o.tok]

(***************************************************************************)
(* JSON values, as response.json() returns them                            *)
(***************************************************************************)
JNull == [k |-> "null"]
JNum(n) == [k |-> "num", v |-> n]
JStr(s) == [k |-> "str", v |-> s]
JList(seq) == [k |-> "list", v |-> seq]
\* a JSON object is a function from its keys to their values
JObj(f) == [k |-> "obj", v |-> f]

\* bool(x)
JTruthy(x) == CASE x.k = "null" -> FALSE
                [] x.k = "num" -> x.v # 0
                [] x.k = "str" -> x.v # ""
                [] x.k = "list" -> x.v # <<>>
                [] x.k = "obj" -> DOMAIN x.v # {}

\* a or b
PyOr(a, b) == IF JTruthy(a) THEN a ELSE b

\* whether x has a get method (is a dict)
HasGet(x) == x.k = "obj"

\* x.get(key, default) of a dict
DictGet(x, key, default) == IF key \in DOMAIN x.v THEN x.v[key] ELSE default

\* whether "for e in x" can start
Iterable(x) == x.k \in {"list", "obj", "str"}

RECURSIVE SetToSeq(_)
SetToSeq(S) == IF S = {} THEN <<>>
               ELSE LET e == CHOOSE e \in S : TRUE
                    IN  <<e>> \o SetToSeq(S \ {e})

\* the elements "for e in x" visits: a list's elements, a dict's keys, a
\* string's characters (the strings iterated here have at most one character)
Elements(x) ==
    CASE x.k = "list" -> x.v
      [] x.k = "obj" -> LET keys == SetToSeq(DOMAIN x.v)
                        IN  [i \in 1..Len(keys) |-> JStr(keys[i])]
      [] x.k = "str" -> IF x.v = "" THEN <<>> ELSE <<x>>

(***************************************************************************)
(* InseeAPI.get_bdm_series, lines 173-192: the response body to records    *)
(***************************************************************************)
\* lines 181-187: the date taken from one observation entry (JNull is None)
ObsDate(obs) ==
    IF obs.k = "obj"
    THEN PyOr(DictGet(obs, "date", JNull), DictGet(obs, "time", JNull))
    ELSE IF obs.k = "list" /\ Len(obs.v) >= 2 THEN obs.v[1]
    ELSE JNull

\* lines 182-187: the value taken from one observation entry
ObsValue(obs) ==
    IF obs.k = "obj" THEN DictGet(obs, "value", JNull)
    ELSE IF obs.k = "list" /\ Len(obs.v) >= 2 THEN obs.v[2]
    ELSE JNull

\* lines 179-189: the records one series entry's observations append
RECURSIVE ObsRecords(_, _)
ObsRecords(idbank, observations) ==
    IF observations = <<>> THEN <<>>
    ELSE LET obs == Head(observations)
             date == ObsDate(obs)
             value == ObsValue(obs)
         IN  (IF date # JNull
              THEN <<[idbank |-> idbank, date |-> date, value |-> value]>>
              ELSE <<>>)
             \o ObsRecords(idbank, Tail(observations))

\* lines 175-189: the loop over the series entries; an entry without get, or
\* whose "values" cannot be iterated, raises and ends the call
RECURSIVE SeriesRecords(_)
SeriesRecords(series) ==
    IF series = <<>> THEN [exc |-> None, records |-> <<>>]
    ELSE LET serie == Head(series)
         IN  IF ~HasGet(serie) THEN [exc |-> "AttributeError", records |-> <<>>]
             ELSE LET idbank == DictGet(serie, "idBank", JNull)
                      observations == DictGet(serie, "values", JList(<<>>))
                  IN  IF ~Iterable(observations)
                      THEN [exc |-> "TypeError", records |-> <<>>]
                      ELSE LET rest == SeriesRecords(Tail(series))
                           IN  IF rest.exc # None THEN rest
                               ELSE [exc |-> None,
                                     records |-> ObsRecords(idbank, Elements(observations))
                                                 \o rest.records]

\* pd.DataFrame(records): one row per record, in the order of the list
DataFrame(records) ==
    [i \in 1..Len(records) |->
        [idbank |-> records[i].idbank, date |-> records[i].date,
         value |-> records[i].value]]

\* lines 173-192 on the parsed body data
Flatten(data) ==
    IF ~HasGet(data) THEN [exc |-> "AttributeError", records |-> <<>>]
    ELSE LET series_list == DictGet(data, "series", JList(<<>>))
         IN  IF ~Iterable(series_list) THEN [exc |-> "TypeError", records |-> <<>>]
             ELSE LET r == SeriesRecords(Elements(series_list))
                  IN  IF r.exc # None THEN r
                      ELSE [exc |-> None, records |-> DataFrame(r.records)]

(***************************************************************************)
(* InseeAPI.get_bdm_series, lines 139-164: the request                     *)
(***************************************************************************)
\* the identifier strings callers pass: empty, blank, padded, plain
IdStrings == {<<>>, <<" ">>, <<" ", "a", " ">>, <<"b">>}

RECURSIVE SeqsUpTo(_, _)
SeqsUpTo(S, n) ==
    IF n = 0 THEN {<<>>}
    ELSE LET shorter == SeqsUpTo(S, n - 1)
         IN  shorter \cup {<<e>> \o q : e \in S, q \in {r \in shorter : Len(r) = n - 1}}

\* idbanks: one string, or a list (tuple, set) of strings
IdbankInputs ==
    [kind : {"str"}, v : IdStrings] \cup [kind : {"list"}, v : SeqsUpTo(IdStrings, MaxIds)]

NoCount == [none |-> TRUE, n |-> 0]
Count(n) == [none |-> FALSE, n |-> n]

FilterInputs ==
    [start_period : {None, "", "2020-01"},
     last_n_observations : {NoCount, Count(0), Count(1), Count(12)},
     detail : {None, "", "dataonly"},
     include_history : BOOLEAN,
     updated_after : {None, "2024-01-31"}]

Digit == <<"0", "1", "2", "3", "4", "5", "6", "7", "8", "9">>

\* str(n) of a natural number, as its sequence of digits
RECURSIVE Str(_)
Str(n) == IF n < 10 THEN <<Digit[n + 1]>> ELSE Str(n \div 10) \o <<Digit[(n % 10) + 1]>>

\* lines 139-145: ids
\* the single string taken as it is
NormalizeIdsNoStrip(idbanks) ==
    IF idbanks.kind = "list" THEN Join(StripNonEmpty(idbanks.v), "+")
    ELSE idbanks.v

NormalizeIds(idbanks) ==
    IF idbanks.kind = "list" THEN Join(StripNonEmpty(idbanks.v), "+")
    ELSE Strip(idbanks.v)

\* includeHistory sent whatever the flag
BuildParamsHistoryAlways(f) ==
    LET keys == (IF Truthy(f.start_period) THEN {"startPeriod"} ELSE {})
                \cup (IF ~f.last_n_observations.none /\ f.last_n_observations.n # 0
                      THEN {"lastNObservations"} ELSE {})
                \cup (IF Truthy(f.detail) THEN {"detail"} ELSE {})
                \cup {"includeHistory"}
                \cup (IF Truthy(f.updated_after) THEN {"updatedAfter"} ELSE {})
    IN  [key \in keys |->
            CASE key = "startPeriod" -> f.start_period
              [] key = "lastNObservations" -> Str(f.last_n_observations.n)
              [] key = "detail" -> f.detail
              [] key = "includeHistory" -> IF f.include_history THEN "true" ELSE "false"
              [] key = "updatedAfter" -> f.updated_after]

\* lines 149-161: params
BuildParams(f) ==
    LET keys == (IF Truthy(f.start_period) THEN {"startPeriod"} ELSE {})
                \cup (IF ~f.last_n_observations.none /\ f.last_n_observations.n # 0
                      THEN {"lastNObservations"} ELSE {})
                \cup (IF Truthy(f.detail) THEN {"detail"} ELSE {})
                \cup (IF f.include_history THEN {"includeHistory"} ELSE {})
                \cup (IF Truthy(f.updated_after) THEN {"updatedAfter"} ELSE {})
    IN  [key \in keys |->
            CASE key = "startPeriod" -> f.start_period
              [] key = "lastNObservations" -> Str(f.last_n_observations.n)
              [] key = "detail" -> f.detail
              [] key = "includeHistory" -> "true"
              [] key = "updatedAfter" -> f.updated_after]

SeriesPath == "/series/data/SERIES_BDM/"

\* lines 139-164: ValueError, or the GET to issue once a token is at hand
BuildRequest(idbanks, f) ==
    LET ids == NormalizeIds(idbanks)
    IN  IF ids = <<>>
        THEN [exc |-> "ValueError", endpoint |-> <<>>, params |-> <<>>]
        ELSE [exc |-> None, endpoint |-> <<SeriesPath>> \o ids, params |-> BuildParams(f)]

(***************************************************************************)
(* Response bodies                                                         *)
(***************************************************************************)
\* the body of spec.md section 8: an object entry followed by a pair
ExampleBody ==
    JObj([series |-> JList(<<
        JObj([idBank |-> JStr("X"),
              values |-> JList(<<JObj([date |-> JStr("2020-01"), value |-> JNum(15)]),
                                 JList(<<JStr("2020-02"), JNull>>)>>)])>>)])

\* the bodies the upstream answers with in Spec
SampleBodies ==
    {ExampleBody,
     JObj(<<>>),
     JObj([series |-> JNull]),
     JList(<<>>),
     JObj([series |-> JList(<<JStr("x"), JObj([idBank |-> JStr("X"), values |-> JList(<<>>)])>>)])}

\* What the upstream may answer to the GET: a non-2xx status, a 2xx whose body
\* is not JSON, or a 2xx with a JSON body.
GetResponses ==
    {[ok |-> FALSE, json |-> FALSE, body |-> JNull],
     [ok |-> TRUE, json |-> FALSE, body |-> JNull]}
    \cup [ok : {TRUE}, json : {TRUE}, body : SampleBodies]

(***************************************************************************)
(* Spec: one caller using one client                                       *)
(***************************************************************************)
\* no idbanks argument at hand
NoArg == [kind |-> "none", v |-> <<>>]

\* call is the call in progress or, when pc = "idle", the last one ended:
\*   op, idbanks   the method called and, until line 163 is reached (lines 139-147
\*                 can then no longer raise), its idbanks argument
\*   t0, tok0, exp0  the clock and the cached token and expiry when the call (for
\*                 get_bdm_series: its get_token call) started
\*   net           the requests sent so far, in order
\*   tk, token     how its get_token call ended, and the token that returned
\*   kind, exc, data  "running", or how the call ended: the exception, the Dataset
NoCall == [op |-> "none", idbanks |-> NoArg, kind |-> "none", exc |-> None,
           t0 |-> 0, tok0 |-> None, exp0 |-> 0,
           tk |-> "none", token |-> None, net |-> <<>>, data |-> <<>>]

NoInput == [idbanks |-> [kind |-> "str", v |-> <<>>],
            filters |-> [start_period |-> None, last_n_observations |-> NoCount,
                         detail |-> None, include_history |-> FALSE,
                         updated_after |-> None]]
NoRequest == [done |-> FALSE, exc |-> None, endpoint |-> <<>>, params |-> <<>>]
NotParsed == [done |-> FALSE, exc |-> None, records |-> <<>>]
\* answer is the last ask_question call: the library and key it found (lib0,
\* key0), its arguments, how the model call would end (outcome), the model calls
\* made (calls), and either the exception raised (exc) or the string returned: a
\* fixed message or prefix (msg), an error description (detail), model text (content)
NoAnswer == [op |-> "none", lib0 |-> FALSE, key0 |-> None,
             df |-> [rows |-> <<>>, render |-> "ok"], question |-> "",
             outcome |-> [kind |-> "none", exc |-> None, content |-> <<>>],
             kind |-> "none", exc |-> None, msg |-> "", detail |-> "",
             content |-> <<>>, calls |-> <<>>]

\* InseeAPI.__init__, lines 55-56, at time 0
TokenInit ==
    /\ now = 0
    /\ access_token = None
    /\ token_expiry = 0
    /\ pc = "idle"
    /\ call = NoCall

Init ==
    /\ TokenInit
    /\ input = NoInput /\ request = NoRequest
    /\ body = JNull /\ parsed = NotParsed
    /\ openai = FALSE /\ api_key = None /\ answer = NoAnswer

\* the wall clock advances
Tick ==
    /\ now < MaxTime
    /\ now' = now + 1
    /\ UNCHANGED <<access_token, token_expiry, pc, call>>
    /\ UNCHANGED <<requestVars, parseVars, answerVars>>

\* the caller calls get_token()
GetToken ==
    /\ pc = "idle"
    /\ \E resp \in TokenResponses, dt \in Delays :
          LET r == get_token(access_token, token_expiry, now, resp, dt)
          IN  /\ r.now <= MaxTime
              /\ now' = r.now
              /\ access_token' = r.tok
              /\ token_expiry' = r.exp
              /\ call' = [op |-> "get_token", idbanks |-> NoArg, kind |-> r.kind, exc |-> r.exc,
                          t0 |-> now, tok0 |-> access_token, exp0 |-> token_expiry,
                          tk |-> r.kind, token |-> r.token, net |-> r.net,
                          data |-> <<>>]
    /\ pc' = "idle"
    /\ UNCHANGED <<requestVars, parseVars, answerVars>>

\* the caller calls get_bdm_series(idbanks, ...): lines 139-161
FetchCall ==
    /\ pc = "idle"
    /\ \E idbanks \in IdbankInputs :
          LET ids == NormalizeIds(idbanks)
              started == [op |-> "get_bdm_series", idbanks |-> idbanks, kind |-> "running", exc |-> None,
                          t0 |-> now, tok0 |-> access_token, exp0 |-> token_expiry,
                          tk |-> "none", token |-> None, net |-> <<>>, data |-> <<>>]
          IN  IF ids = <<>>
              THEN /\ call' = [started EXCEPT !.kind = "raise", !.exc = "ValueError"]
                   /\ pc' = "idle"
              ELSE /\ call' = started
                   /\ pc' = "fetch_token"
    /\ UNCHANGED <<now, access_token, token_expiry>>
    /\ UNCHANGED <<requestVars, parseVars, answerVars>>

\* line 163: self.get_token() for the Authorization header
FetchToken ==
    /\ pc = "fetch_token"
    /\ \E resp \in TokenResponses, dt \in Delays :
          LET r == get_token(access_token, token_expiry, now, resp, dt)
          IN  /\ r.now <= MaxTime
              /\ now' = r.now
              /\ access_token' = r.tok
              /\ token_expiry' = r.exp
              /\ call' = [call EXCEPT !.idbanks = NoArg, !.t0 = now, !.tk = r.kind, !.token = r.token,
                                      !.net = r.net,
                                      !.kind = IF r.kind = "raise" THEN "raise" ELSE "running",
                                      !.exc = r.exc]
              /\ pc' = IF r.kind = "raise" THEN "idle" ELSE "fetch_get"
    /\ UNCHANGED <<requestVars, parseVars, answerVars>>

GetSeries(resp) == [m |-> "GET", url |-> SeriesPath, ok |-> resp.ok]

\* the GET without raise_for_status
FetchGetNoRaise ==
    /\ pc = "fetch_get"
    /\ \E resp \in GetResponses :
          LET sent == Append(call.net, GetSeries(resp))
              flat == Flatten(resp.body)
          IN  call' = IF ~resp.json
                      THEN [call EXCEPT !.net = sent, !.kind = "raise",
                                        !.exc = "JSONDecodeError"]
                      ELSE IF flat.exc # None
                      THEN [call EXCEPT !.net = sent, !.kind = "raise", !.exc = flat.exc]
                      ELSE [call EXCEPT !.net = sent, !.kind = "return",
                                        !.data = flat.records]
    /\ pc' = "idle"
    /\ UNCHANGED <<now, access_token, token_expiry>>
    /\ UNCHANGED <<requestVars, parseVars, answerVars>>

\* lines 164-192: the GET, raise_for_status, json() and the flattening
FetchGet ==
    /\ pc = "fetch_get"
    /\ \E resp \in GetResponses :
          LET sent == Append(call.net, GetSeries(resp))
              flat == Flatten(resp.body)
          IN  call' = IF ~resp.ok
                      THEN [call EXCEPT !.net = sent, !.kind = "raise", !.exc = "HTTPError"]
                      ELSE IF ~resp.json
                      THEN [call EXCEPT !.net = sent, !.kind = "raise",
                                        !.exc = "JSONDecodeError"]
                      ELSE IF flat.exc # None
                      THEN [call EXCEPT !.net = sent, !.kind = "raise", !.exc = flat.exc]
                      ELSE [call EXCEPT !.net = sent, !.kind = "return",
                                        !.data = flat.records]
    /\ pc' = "idle"
    /\ UNCHANGED <<now, access_token, token_expiry>>
    /\ UNCHANGED <<requestVars, parseVars, answerVars>>

Next == Tick \/ GetToken \/ FetchCall \/ FetchToken \/ FetchGet

Spec == Init /\ [][Next]_vars

(***************************************************************************)
(* Claims checked under Spec                                               *)
(***************************************************************************)
\* the token exchanges among the requests sent
Posts(net) == {i \in 1..Len(net) : net[i].m = "POST"}
Gets(net) == {i \in 1..Len(net) : net[i].m = "GET"}

\* C1: a get_token call that returns, made while a token is held, returns the
\* held token verbatim and sends no token exchange if the clock at the call is
\* before the stored expiry, and sends exactly one token exchange if the clock
\* is at or after the stored expiry.
C1_TokenReusedUntilExpiry ==
    (call.tk = "return" /\ Truthy(call.tok0)) =>
        /\ call.t0 < call.exp0 => (call.token = call.tok0 /\ Posts(call.net) = {})
        /\ call.t0 >= call.exp0 => Cardinality(Posts(call.net)) = 1

\* a held token whose expiry instant has been reached is renewed by one exchange
C1_Witness ==
    /\ call.op = "get_token" /\ call.tk = "return"
    /\ call.tok0 = "T1" /\ call.exp0 > 0 /\ call.t0 = call.exp0
    /\ call.token = "T2"
    /\ call.net = <<[m |-> "POST", url |-> "/token", ok |-> TRUE]>>

\* C2: every token get_token returns is valid at the time of the call: it is
\* not None and the stored expiry instant is strictly later than the call time.
C2_ReturnedTokenValid ==
    call.tk = "return" =>
        (call.token # None /\ call.token = access_token /\ token_expiry > call.t0)

\* whether every identifier supplied is empty once trimmed
AllBlank(idbanks) ==
    IF idbanks.kind = "list"
    THEN \A j \in 1..Len(idbanks.v) : \A i \in 1..Len(idbanks.v[j]) : idbanks.v[j][i] = " "
    ELSE \A i \in 1..Len(idbanks.v) : idbanks.v[i] = " "

\* C3: get_bdm_series called with identifiers that are all empty after trimming
\* (the empty collection included) raises ValueError having sent no request, the
\* cached token and expiry being those of before the call.
C3_BlankIdsFailBeforeNetwork ==
    (call.op = "get_bdm_series" /\ call.idbanks # NoArg /\ AllBlank(call.idbanks)) =>
        /\ pc = "idle" /\ call.kind = "raise" /\ call.exc = "ValueError"
        /\ call.net = <<>>
        /\ access_token = call.tok0 /\ token_expiry = call.exp0

\* a list of two blank identifiers, passed while the held token has expired
C3_Witness ==
    /\ call.op = "get_bdm_series"
    /\ call.idbanks = [kind |-> "list", v |-> <<<<>>, <<" ">>>>]
    /\ call.exc = "ValueError"
    /\ Truthy(call.tok0) /\ now >= call.exp0

\* C4: in one get_bdm_series call the GET is sent only after get_token returned
\* a token; at most one token exchange and at most one GET are sent; a non-2xx
\* answer to either ends the call with HTTPError, a failed token exchange being
\* the last request sent and a failed call yielding no Dataset.
C4_FetchOrderNoRetry ==
    call.op = "get_bdm_series" =>
        /\ Cardinality(Posts(call.net)) <= 1
        /\ Cardinality(Gets(call.net)) <= 1
        /\ \A i \in Gets(call.net) :
              /\ call.tk = "return" /\ call.token # None
              /\ i = Len(call.net)
              /\ \A j \in 1..(i - 1) : call.net[j].m = "POST" /\ call.net[j].ok
        /\ \A i \in 1..Len(call.net) :
              ~call.net[i].ok =>
                  /\ i = Len(call.net)
                  /\ pc = "idle" /\ call.kind = "raise" /\ call.exc = "HTTPError"
        /\ call.kind = "raise" => call.data = <<>>
        /\ call.kind = "return" =>
              (Cardinality(Gets(call.net)) = 1 /\ call.net[Len(call.net)].ok)

\* a token exchange that succeeded, followed by a GET answered non-2xx
C4_Witness ==
    /\ call.op = "get_bdm_series" /\ pc = "idle"
    /\ call.net = <<[m |-> "POST", url |-> "/token", ok |-> TRUE],
                    [m |-> "GET", url |-> SeriesPath, ok |-> FALSE]>>
    /\ call.kind = "raise" /\ call.exc = "HTTPError"

(***************************************************************************)
(* SpecRequest: the request of get_bdm_series, for every input             *)
(***************************************************************************)
RequestInit ==
    /\ TokenInit
    /\ input \in [idbanks : IdbankInputs, filters : FilterInputs]
    /\ request = NoRequest
    /\ body = JNull /\ parsed = NotParsed
    /\ openai = FALSE /\ api_key = None /\ answer = NoAnswer

\* lines 139-164 on the arguments input
AssembleRequest ==
    /\ ~request.done
    /\ LET r == BuildRequest(input.idbanks, input.filters)
       IN  request' = [done |-> TRUE, exc |-> r.exc, endpoint |-> r.endpoint,
                       params |-> r.params]
    /\ UNCHANGED <<input, tokenVars, parseVars, answerVars>>

SpecRequest == RequestInit /\ [][AssembleRequest]_vars

\* s without its leading and trailing blanks
Trimmed(s) ==
    LET solid == {i \in 1..Len(s) : s[i] # " "}
    IN  IF solid = {} THEN <<>>
        ELSE SubSeq(s, CHOOSE i \in solid : \A j \in solid : i <= j,
                       CHOOSE i \in solid : \A j \in solid : i >= j)

\* the identifiers supplied, trimmed, the empty ones left out, in the order supplied
KeptIds(idbanks) ==
    IF idbanks.kind = "list"
    THEN SelectSeq([i \in 1..Len(idbanks.v) |-> Trimmed(idbanks.v[i])],
                   LAMBDA x : x # <<>>)
    ELSE IF Trimmed(idbanks.v) = <<>> THEN <<>> ELSE <<Trimmed(idbanks.v)>>

\* id1+id2+...
PlusJoined(ids) ==
    LET upto[i \in 0..Len(ids)] ==
            IF i = 0 THEN <<>>
            ELSE IF i = 1 THEN ids[1]
            ELSE upto[i - 1] \o <<"+">> \o ids[i]
    IN  upto[Len(ids)]

\* the number a sequence of decimal digits writes
DigitValue(d) == CHOOSE n \in 0..9 : Digit[n + 1] = d
Decimal(digits) ==
    LET upto[i \in 0..Len(digits)] ==
            IF i = 0 THEN 0 ELSE 10 * upto[i - 1] + DigitValue(digits[i])
    IN  upto[Len(digits)]

Supplied(x) == x # None /\ x # ""

\* C10: the GET of get_bdm_series is determined by the arguments: its path ends
\* with the trimmed, non-empty identifiers joined by "+" in the order supplied,
\* and its query parameters are exactly startPeriod, lastNObservations (a positive
\* count, in decimal), detail (as supplied), includeHistory = "true" (only when
\* the flag is true) and updatedAfter, each present when and only when supplied.
C10_RequestFromArguments ==
    (request.done /\ request.exc = None) =>
        LET f == input.filters
            p == request.params
        IN  /\ KeptIds(input.idbanks) # <<>>
            /\ request.endpoint = <<SeriesPath>> \o PlusJoined(KeptIds(input.idbanks))
            /\ DOMAIN p \subseteq {"startPeriod", "lastNObservations", "detail",
                                    "includeHistory", "updatedAfter"}
            /\ "startPeriod" \in DOMAIN p <=> Supplied(f.start_period)
            /\ "startPeriod" \in DOMAIN p => p["startPeriod"] = f.start_period
            /\ "lastNObservations" \in DOMAIN p <=>
                  (~f.last_n_observations.none /\ f.last_n_observations.n > 0)
            /\ "lastNObservations" \in DOMAIN p =>
                  Decimal(p["lastNObservations"]) = f.last_n_observations.n
            /\ "detail" \in DOMAIN p <=> Supplied(f.detail)
            /\ "detail" \in DOMAIN p => p["detail"] = f.detail
            /\ "includeHistory" \in DOMAIN p <=> f.include_history
            /\ "includeHistory" \in DOMAIN p => p["includeHistory"] = "true"
            /\ "updatedAfter" \in DOMAIN p <=> Supplied(f.updated_after)
            /\ "updatedAfter" \in DOMAIN p => p["updatedAfter"] = f.updated_after

\* two padded identifiers and every filter but includeHistory supplied
C10_Witness ==
    /\ request.done
    /\ input.idbanks = [kind |-> "list", v |-> <<<<" ", "a", " ">>, <<"b">>>>]
    /\ request.endpoint = <<SeriesPath, "a", "+", "b">>
    /\ request.params = [startPeriod |-> "2020-01", lastNObservations |-> <<"1", "2">>,
                         detail |-> "dataonly", updatedAfter |-> "2024-01-31"]

(***************************************************************************)
(* SpecParse: the flattening of lines 173-192, for every body              *)
(***************************************************************************)
\* observation entries: objects, pairs, and entries that are neither
ObjectEntries ==
    {JObj([date |-> JStr("2020-01"), value |-> JNum(15)]),
     JObj([date |-> JStr("2020-01")]),
     JObj([time |-> JStr("2020-02"), value |-> JNum(15)]),
     JObj([value |-> JNum(15)]),
     JObj([date |-> JNull, value |-> JNum(15)]),
     JObj([date |-> JStr(""), value |-> JNum(15)]),
     JObj([date |-> JStr("2020-01"), value |-> JStr("n/a")]),
     JObj([date |-> JStr("2020-01"), value |-> JNull])}

PairEntries ==
    {JList(<<JStr("2020-02"), JNull>>),
     JList(<<JStr("2020-02"), JNum(0)>>),
     JList(<<JNull, JNum(15)>>),
     JList(<<JStr(""), JNum(15)>>),
     JList(<<JStr("2020-02"), JStr("n/a")>>)}

OtherEntries ==
    {JList(<<JStr("2020-02")>>), JNum(5), JStr("x"), JNull}

ObsEntries == ObjectEntries \cup PairEntries \cup OtherEntries

\* the first series entry: with or without idBank, its observations any list
FirstSeries ==
    {JObj([idBank |-> JStr("X"), values |-> JList(obs)]) : obs \in SeqsUpTo(ObsEntries, MaxObs)}
    \cup {JObj([values |-> JList(obs)]) : obs \in SeqsUpTo(ObsEntries, MaxObs)}

\* what precedes and what follows it in the series list
SeriesBefore == {<<>>, <<JNull>>}
SeriesAfter ==
    {<<>>,
     <<JObj([idBank |-> JStr("Y"), values |-> JList(<<JList(<<JStr("2021"), JNum(7)>>)>>)])>>,
     <<JStr("x")>>,
     <<JObj([idBank |-> JStr("Y"), values |-> JNull])>>,
     <<JObj([idBank |-> JStr("Y")])>>}

\* bodies without a list under "series"
OddBodies ==
    {JObj(<<>>), JObj([series |-> JNull]), JObj([series |-> JStr("x")]),
     JObj([series |-> JStr("")]), JObj([series |-> JNum(5)]),
     JObj([series |-> JObj(<<>>)])}

Bodies ==
    {JObj([series |-> JList(b \o <<s>> \o a)]) :
        b \in SeriesBefore, s \in FirstSeries, a \in SeriesAfter}
    \cup OddBodies

ParseInit ==
    /\ TokenInit
    /\ input = NoInput /\ request = NoRequest
    /\ body \in Bodies
    /\ parsed = NotParsed
    /\ openai = FALSE /\ api_key = None /\ answer = NoAnswer

\* lines 173-192 on the 2xx body
ParseBody ==
    /\ ~parsed.done
    /\ LET r == Flatten(body)
       IN  parsed' = [done |-> TRUE, exc |-> r.exc, records |-> r.records]
    /\ UNCHANGED <<body, tokenVars, requestVars, answerVars>>

SpecParse == ParseInit /\ [][ParseBody]_vars

(***************************************************************************)
(* Claims checked under SpecParse                                          *)
(***************************************************************************)
RECURSIVE Concat(_)
Concat(seqs) == IF seqs = <<>> THEN <<>> ELSE Head(seqs) \o Concat(Tail(seqs))

IsObject(x) == x.k = "obj"
IsPair(x) == x.k = "list" /\ Len(x.v) = 2
IsNumber(x) == x.k = "num"

\* whether the body holds a list under "series"
HasSeriesList(data) ==
    IsObject(data) /\ "series" \in DOMAIN data.v /\ data.v["series"].k = "list"

\* whether a series entry is an object whose observations, if any, are a list
HasStructure(serie) ==
    IsObject(serie) /\ ("values" \in DOMAIN serie.v => serie.v["values"].k = "list")

EntriesOf(serie) == IF "values" \in DOMAIN serie.v THEN serie.v["values"].v ELSE <<>>
IdOf(serie) == IF "idBank" \in DOMAIN serie.v THEN serie.v["idBank"] ELSE JNull

\* a body of series objects whose observation entries are objects or pairs
WellShaped(data) ==
    /\ HasSeriesList(data)
    /\ \A i \in 1..Len(data.v["series"].v) :
          LET serie == data.v["series"].v[i]
          IN  /\ HasStructure(serie)
              /\ \A j \in 1..Len(EntriesOf(serie)) :
                    IsObject(EntriesOf(serie)[j]) \/ IsPair(EntriesOf(serie)[j])

\* the date an entry carries: an object's date field, else its time field; a
\* pair's first element; JNull when absent
CarriedDate(obs) ==
    IF IsObject(obs)
    THEN IF "date" \in DOMAIN obs.v /\ obs.v["date"] # JNull THEN obs.v["date"]
         ELSE IF "time" \in DOMAIN obs.v THEN obs.v["time"] ELSE JNull
    ELSE obs.v[1]

CarriedValue(obs) ==
    IF IsObject(obs)
    THEN IF "value" \in DOMAIN obs.v THEN obs.v["value"] ELSE JNull
    ELSE obs.v[2]

\* one record per entry whose date is present, in the order of the entries
DatedRecords(serie) ==
    LET dated == SelectSeq(EntriesOf(serie), LAMBDA o : CarriedDate(o) # JNull)
    IN  [j \in 1..Len(dated) |->
            [idbank |-> IdOf(serie), date |-> CarriedDate(dated[j]),
             value |-> CarriedValue(dated[j])]]

\* C7: flattening a 2xx body yields, for each series entry in order and each of
\* its observation entries in order, exactly one record {idbank, date, value}
\* when the entry is an object or a pair whose date is present and none when
\* its date is absent: only entries with a missing date are dropped.
C7_OneRecordPerDatedEntry ==
    (parsed.done /\ WellShaped(body)) =>
        /\ parsed.exc = None
        /\ parsed.records =
              Concat([i \in 1..Len(body.v["series"].v) |->
                         DatedRecords(body.v["series"].v[i])])

\* the entries of a well-shaped body that the flattening turned into records
RecordedEntries(data) ==
    Concat([i \in 1..Len(data.v["series"].v) |->
               SelectSeq(EntriesOf(data.v["series"].v[i]),
                         LAMBDA o : ObsDate(o) # JNull)])

\* C8: the record of an entry whose date is present has a null value whenever
\* the entry's value is absent or not numeric, and the entry's value unchanged
\* when it is numeric.
C8_ValueNumericOrNull ==
    (parsed.done /\ WellShaped(body)) =>
        /\ Len(parsed.records) = Len(RecordedEntries(body))
        /\ \A i \in 1..Len(parsed.records) :
              LET v == CarriedValue(RecordedEntries(body)[i])
              IN  parsed.records[i].value = IF IsNumber(v) THEN v ELSE JNull

\* the records of the series entries that have structure, the others skipped
TolerantRecords(data) ==
    IF ~HasSeriesList(data) THEN <<>>
    ELSE LET kept == SelectSeq(data.v["series"].v, HasStructure)
         IN  Concat([i \in 1..Len(kept) |->
                        ObsRecords(IdOf(kept[i]), EntriesOf(kept[i]))])

\* C9: after a 2xx the flattening never fails on the shape of the body: a body
\* without a list under "series" yields the empty Dataset, and a series entry or
\* observation entry without extractable structure is skipped, the remaining
\* entries being parsed.
C9_ShapeNeverFails ==
    parsed.done =>
        /\ parsed.exc = None
        /\ parsed.records = TolerantRecords(body)

(***************************************************************************)
(* rag_agent.py: dataframe_to_context and ask_question                     *)
(***************************************************************************)
\* def dataframe_to_context(df, max_rows: int = 5)
DefaultMaxRows == 5
\* max_tokens=256
MaxTokens == 256

\* the messages of lines 43, 81, 84, 91 and 107 (accents dropped)
LibMissingMessage == "Le package openai n'est pas installe. Veuillez l'ajouter aux dependances."
KeyMissingMessage == "Aucune cle OPENAI_API_KEY trouvee. Definissez cette variable d'environnement dans votre systeme ou dans Streamlit."
CallFailedPrefix == "Erreur lors de l'appel a l'API OpenAI : "
SystemPrompt == "Tu es un assistant qui repond aux questions sur des donnees de l'INSEE en utilisant les informations fournies dans le contexte. Reponds en francais de facon concise et claire."

\* df.head(max_rows)
DfHead(rows, max_rows) ==
    SubSeq(rows, 1, IF Len(rows) < max_rows THEN Len(rows) ELSE max_rows)

\* A DataFrame is its rows and how its cells render: "ok", "to_string_fails"
\* (to_string raises, str() does not) or "unprintable" (a cell whose __repr__
\* raises makes both raise).
\* lines 42-48
dataframe_to_context(df, max_rows) ==
    IF df.rows = <<>> THEN [exc |-> None, how |-> "empty", rows |-> <<>>]
    ELSE IF df.render = "ok"
    THEN [exc |-> None, how |-> "to_string", rows |-> DfHead(df.rows, max_rows)]
    ELSE IF df.render = "to_string_fails"
    THEN [exc |-> None, how |-> "str", rows |-> DfHead(df.rows, max_rows)]
    ELSE [exc |-> "ReprError", how |-> "none", rows |-> <<>>]

\* What openai.ChatCompletion.create does: it raises, or it returns a response
\* with no choice, or one whose first message has no content key, a null
\* content or a text.
ModelOutcomes ==
    [kind : {"raise"}, exc : {"RateLimitError", "APIConnectionError"}, content : {<<>>}]
    \cup [kind : {"no_choice", "no_content", "null_content"}, exc : {None}, content : {<<>>}]
    \cup [kind : {"text"}, exc : {None}, content : {<<>>, <<" ", "r", " ">>, <<"r", " ", "s">>}]

Returned(msg, detail, content, calls) ==
    [kind |-> "return", exc |-> None, msg |-> msg, detail |-> detail,
     content |-> content, calls |-> calls]

Raised(exc, calls) ==
    [kind |-> "raise", exc |-> exc, msg |-> "", detail |-> "", content |-> <<>>,
     calls |-> calls]

\* the model called whether or not a key is configured
ask_question_no_key_check(lib, key, df, question, outcome) ==
    IF ~lib THEN Returned(LibMissingMessage, "", <<>>, <<>>)
    ELSE LET context == dataframe_to_context(df, DefaultMaxRows)
             sent == <<[model |-> "gpt-3.5-turbo", max_tokens |-> MaxTokens,
                        system |-> SystemPrompt,
                        user |-> [context |-> context, question |-> question]]>>
         IN  IF context.exc # None THEN Raised(context.exc, <<>>)
             ELSE IF outcome.kind = "raise"
             THEN Returned(CallFailedPrefix, outcome.exc, <<>>, sent)
             ELSE IF outcome.kind = "no_choice"
             THEN Returned(CallFailedPrefix, "IndexError", <<>>, sent)
             ELSE IF outcome.kind = "null_content"
             THEN Returned(CallFailedPrefix, "AttributeError", <<>>, sent)
             ELSE IF outcome.kind = "no_content"
             THEN Returned("", "", Strip(<<>>), sent)
             ELSE Returned("", "", Strip(outcome.content), sent)

\* lines 80-107, with openai imported or not (lib), OPENAI_API_KEY set to key or
\* unset (None), and the model call ending as outcome
ask_question(lib, key, df, question, outcome) ==
    IF ~lib THEN Returned(LibMissingMessage, "", <<>>, <<>>)
    ELSE IF ~Truthy(key) THEN Returned(KeyMissingMessage, "", <<>>, <<>>)
    ELSE LET context == dataframe_to_context(df, DefaultMaxRows)
             sent == <<[model |-> "gpt-3.5-turbo", max_tokens |-> MaxTokens,
                        system |-> SystemPrompt,
                        user |-> [context |-> context, question |-> question]]>>
         IN  IF context.exc # None THEN Raised(context.exc, <<>>)
             ELSE IF outcome.kind = "raise"
             THEN Returned(CallFailedPrefix, outcome.exc, <<>>, sent)
             ELSE IF outcome.kind = "no_choice"
             THEN Returned(CallFailedPrefix, "IndexError", <<>>, sent)
             ELSE IF outcome.kind = "null_content"
             THEN Returned(CallFailedPrefix, "AttributeError", <<>>, sent)
             ELSE IF outcome.kind = "no_content"
             THEN Returned("", "", Strip(<<>>), sent)
             ELSE Returned("", "", Strip(outcome.content), sent)

\* the DataFrames passed: empty, one row, MaxDfRows rows (the rows numbered)
DataFrames ==
    [rows : {[i \in 1..n |-> i] : n \in {0, 1, MaxDfRows}},
     render : {"ok", "to_string_fails", "unprintable"}]

Questions == {"q1", "q2"}
ApiKeys == {None, "", "sk-1"}

\* the import of lines 16-21 succeeded or not; OPENAI_API_KEY is whatever the
\* process was started with
AnswerInit ==
    /\ TokenInit
    /\ input = NoInput /\ request = NoRequest
    /\ body = JNull /\ parsed = NotParsed
    /\ openai \in BOOLEAN
    /\ api_key \in ApiKeys
    /\ answer = NoAnswer

\* the environment variable is set, changed or unset between calls
SetApiKey ==
    /\ \E key \in ApiKeys : key # api_key /\ api_key' = key
    /\ UNCHANGED <<openai, answer, tokenVars, requestVars, parseVars>>

\* the caller calls ask_question(df, question)
AskQuestion ==
    /\ \E df \in DataFrames, question \in Questions, outcome \in ModelOutcomes :
          LET r == ask_question(openai, api_key, df, question, outcome)
          IN  answer' = [op |-> "ask_question", lib0 |-> openai, key0 |-> api_key,
                         df |-> df, question |-> question, outcome |-> outcome,
                         kind |-> r.kind, exc |-> r.exc, msg |-> r.msg,
                         detail |-> r.detail, content |-> r.content, calls |-> r.calls]
    /\ UNCHANGED <<openai, api_key, tokenVars, requestVars, parseVars>>

AnswerNext == SetApiKey \/ AskQuestion

SpecAnswer == AnswerInit /\ [][AnswerNext]_vars

(***************************************************************************)
(* Claims checked under SpecAnswer                                         *)
(***************************************************************************)
\* C5: ask_question never propagates a failure: whatever the DataFrame, the
\* question and the failure (library missing, key missing, the excerpt failing
\* to build, the model call raising, a malformed response) it returns a string,
\* which contains the error's description when the model call failed.
C5_AnswerNeverRaises ==
    answer.op = "ask_question" =>
        /\ answer.kind = "return"
        /\ (answer.calls # <<>> /\ answer.outcome.kind = "raise") =>
              (answer.msg = CallFailedPrefix /\ answer.detail = answer.outcome.exc)

\* C6: ask_question calls the model only when the library is imported and a
\* key is configured; without the library it returns the "not installed"
\* message, with the library and without a key the distinct "missing key"
\* message, and in both cases calls nothing.
C6_PreconditionsBeforeCall ==
    answer.op = "ask_question" =>
        /\ answer.calls # <<>> => (answer.lib0 /\ answer.key0 \notin {None, ""})
        /\ ~answer.lib0 =>
              (answer.kind = "return" /\ answer.msg = LibMissingMessage
               /\ answer.calls = <<>>)
        /\ (answer.lib0 /\ answer.key0 \in {None, ""}) =>
              (answer.kind = "return" /\ answer.msg = KeyMissingMessage
               /\ answer.msg # LibMissingMessage /\ answer.calls = <<>>)

\* the library is imported and OPENAI_API_KEY is set to the empty string
C6_Witness ==
    /\ answer.op = "ask_question"
    /\ answer.lib0 /\ answer.key0 = ""
    /\ answer.msg = KeyMissingMessage /\ answer.calls = <<>>
    /\ Len(answer.df.rows) > DefaultMaxRows

(***************************************************************************)
(* get_token called by concurrent callers on one client                    *)
(*                                                                         *)
(* Under SpecThreads the variables pc and call are functions of the        *)
(* caller: pc[c] is the line of get_token or _obtain_token caller c is     *)
(* about to execute, call[c] what the caller holds locally. The fields     *)
(* access_token and token_expiry are the client's, shared by the callers.  *)
(* A step is one read or write of a field, or one POST; the callers'       *)
(* steps interleave freely, as threads of one process do.                  *)
(***************************************************************************)
Callers == {"c1", "c2"}

\* What the upstream answers to the callers' POST /token: the answers of
\* TokenResponses with a duration of 0 or 1 second and a token, and one answer of
\* each other kind (no duration, no token, a malformed duration, a non-2xx status)
ThreadResponses ==
    {r \in TokenResponses :
        \/ r.ok /\ r.access_token \in Tokens /\ r.expires = "number"
              /\ r.expires_in \in {0, 1}
        \/ r.ok /\ r.access_token = "T1" /\ r.expires \in {"absent", "malformed"}
        \/ r.ok /\ r.access_token = None /\ r.expires = "number" /\ r.expires_in = 1
        \/ ~r.ok}

NoResponse == [ok |-> FALSE, access_token |-> None, expires |-> "none", expires_in |-> 0]

\* call[c] for a caller outside get_token:
\*   kind, exc, token  "running", or how the caller's last call ended
\*   refresh           the test of line 85 sent the call into _obtain_token
\*   tok0, exp0        the fields that test read (exp0 is None when it read no
\*                     expiry: the token was absent or empty)
\*   posts             the POST requests the call has sent
\*   resp              the response _obtain_token holds (data, lines 73-77)
NoThreadCall == [kind |-> "none", exc |-> None, token |-> None,
                 refresh |-> FALSE, tok0 |-> None, exp0 |-> None,
                 posts |-> 0, resp |-> NoResponse]

Running == [NoThreadCall EXCEPT !.kind = "running"]

ThreadInit ==
    /\ now = 0
    /\ access_token = None
    /\ token_expiry = 0
    /\ pc = [c \in Callers |-> "idle"]
    /\ call = [c \in Callers |-> NoThreadCall]
    /\ input = NoInput /\ request = NoRequest
    /\ body = JNull /\ parsed = NotParsed
    /\ openai = FALSE /\ api_key = None /\ answer = NoAnswer

\* caller c ends its call: the exception raised or the value returned
Leave(c, kind, exc, token) ==
    /\ pc' = [pc EXCEPT ![c] = "idle"]
    /\ call' = [call EXCEPT ![c] = [NoThreadCall EXCEPT !.kind = kind, !.exc = exc,
                                                         !.token = token]]

\* caller c calls get_token()
CallerEnter(c) ==
    /\ pc[c] = "idle"
    /\ pc' = [pc EXCEPT ![c] = "check_token"]
    /\ call' = [call EXCEPT ![c] = Running]
    /\ UNCHANGED <<now, access_token, token_expiry>>
    /\ UNCHANGED <<requestVars, parseVars, answerVars>>

\* a get_token that takes a lock held until it returns: no caller starts the
\* test while another is between its test and its return
CallerCheckTokenLocked(c) ==
    /\ pc[c] = "check_token"
    /\ \A d \in Callers \ {c} : pc[d] \in {"idle", "check_token"}
    /\ IF ~Truthy(access_token)
       THEN /\ pc' = [pc EXCEPT ![c] = "post"]
            /\ call' = [call EXCEPT ![c] = [@ EXCEPT !.refresh = TRUE,
                                                     !.tok0 = access_token]]
       ELSE /\ pc' = [pc EXCEPT ![c] = "check_expiry"]
            /\ call' = [call EXCEPT ![c].tok0 = access_token]
    /\ UNCHANGED <<now, access_token, token_expiry>>
    /\ UNCHANGED <<requestVars, parseVars, answerVars>>

\* line 85, left operand: not self._access_token
CallerCheckToken(c) ==
    /\ pc[c] = "check_token"
    /\ IF ~Truthy(access_token)
       THEN /\ pc' = [pc EXCEPT ![c] = "post"]
            /\ call' = [call EXCEPT ![c] = [@ EXCEPT !.refresh = TRUE,
                                                     !.tok0 = access_token]]
       ELSE /\ pc' = [pc EXCEPT ![c] = "check_expiry"]
            /\ call' = [call EXCEPT ![c].tok0 = access_token]
    /\ UNCHANGED <<now, access_token, token_expiry>>
    /\ UNCHANGED <<requestVars, parseVars, answerVars>>

\* line 85, right operand: time.time() >= self._token_expiry
CallerCheckExpiry(c) ==
    /\ pc[c] = "check_expiry"
    /\ IF now >= token_expiry
       THEN /\ pc' = [pc EXCEPT ![c] = "post"]
            /\ call' = [call EXCEPT ![c] = [@ EXCEPT !.refresh = TRUE,
                                                     !.exp0 = token_expiry]]
       ELSE /\ pc' = [pc EXCEPT ![c] = "assert"]
            /\ call' = [call EXCEPT ![c].tok0 = None]
    /\ UNCHANGED <<now, access_token, token_expiry>>
    /\ UNCHANGED <<requestVars, parseVars, answerVars>>

\* lines 71-73: the POST, raise_for_status and response.json()
CallerPost(c) ==
    /\ pc[c] = "post"
    /\ \E resp \in ThreadResponses :
          IF ~resp.ok
          THEN Leave(c, "raise", "HTTPError", None)
          ELSE /\ pc' = [pc EXCEPT ![c] = "store_token"]
               /\ call' = [call EXCEPT ![c] = [@ EXCEPT !.posts = @ + 1,
                                                        !.resp = resp]]
    /\ UNCHANGED <<now, access_token, token_expiry>>
    /\ UNCHANGED <<requestVars, parseVars, answerVars>>

\* line 74: self._access_token = data.get("access_token")
CallerStoreToken(c) ==
    /\ pc[c] = "store_token"
    /\ access_token' = call[c].resp.access_token
    /\ pc' = [pc EXCEPT ![c] = "store_expiry"]
    /\ UNCHANGED <<now, token_expiry, call>>
    /\ UNCHANGED <<requestVars, parseVars, answerVars>>

\* lines 76-77: self._token_expiry = time.time() + float(expires_in)
CallerStoreExpiry(c) ==
    /\ pc[c] = "store_expiry"
    /\ LET resp == call[c].resp
       IN  IF resp.expires = "malformed"
           THEN /\ Leave(c, "raise", "ValueError", None)
                /\ UNCHANGED token_expiry
           ELSE /\ token_expiry' = now + (IF resp.expires = "absent"
                                          THEN DefaultExpiresIn ELSE resp.expires_in)
                /\ pc' = [pc EXCEPT ![c] = "assert"]
                /\ call' = [call EXCEPT ![c].resp = NoResponse]
    /\ UNCHANGED <<now, access_token>>
    /\ UNCHANGED <<requestVars, parseVars, answerVars>>

\* line 87: assert self._access_token is not None
CallerAssert(c) ==
    /\ pc[c] = "assert"
    /\ IF access_token = None
       THEN Leave(c, "raise", "AssertionError", None)
       ELSE /\ pc' = [pc EXCEPT ![c] = "return"]
            /\ UNCHANGED call
    /\ UNCHANGED <<now, access_token, token_expiry>>
    /\ UNCHANGED <<requestVars, parseVars, answerVars>>

\* line 88: return self._access_token
CallerReturn(c) ==
    /\ pc[c] = "return"
    /\ Leave(c, "return", None, access_token)
    /\ UNCHANGED <<now, access_token, token_expiry>>
    /\ UNCHANGED <<requestVars, parseVars, answerVars>>

CheckToken == \E c \in Callers : CallerCheckToken(c)
CheckExpiry == \E c \in Callers : CallerCheckExpiry(c)
Enter == \E c \in Callers : CallerEnter(c)
Post == \E c \in Callers : CallerPost(c)
StoreToken == \E c \in Callers : CallerStoreToken(c)
StoreExpiry == \E c \in Callers : CallerStoreExpiry(c)
AssertToken == \E c \in Callers : CallerAssert(c)
Return == \E c \in Callers : CallerReturn(c)

ThreadNext ==
    Tick \/ Enter \/ CheckToken \/ CheckExpiry \/ Post \/ StoreToken
         \/ StoreExpiry \/ AssertToken \/ Return

SpecThreads == ThreadInit /\ [][ThreadNext]_vars

(***************************************************************************)
(* Claims checked under SpecThreads                                        *)
(***************************************************************************)
\* the positions of a call that has sent its POST and has not returned
AfterPost == {"store_token", "store_expiry"}

\* C11: the test and the renewal of get_token are separate steps with no lock
\* between them: a caller about to test the token can always take that step,
\* wherever the other callers stand, and a call the test sent to renew sends
\* its own POST whatever the other callers stored in between. A single call
\* sends at most one POST, and none when its test found the token valid.
C11_CheckThenRefreshNotAtomic ==
    \A c \in Callers :
        /\ pc[c] = "check_token" => ENABLED CallerCheckToken(c)
        /\ call[c].posts <= 1
        /\ (call[c].refresh /\ pc[c] \in AfterPost) => call[c].posts = 1
        /\ (call[c].kind = "running" /\ ~call[c].refresh) => call[c].posts = 0

\* two callers found the same expired token, both passed the test and each has
\* sent its own POST: two renewals for one expiry, neither stored yet
C11_Witness ==
    /\ Truthy(access_token) /\ now >= token_expiry
    /\ \A c \in Callers :
          /\ pc[c] = "store_token"
          /\ call[c].refresh
          /\ call[c].tok0 = access_token
          /\ call[c].exp0 = token_expiry
          /\ call[c].posts = 1
          /\ call[c].resp.ok
====
